---- MODULE Spec2Model ----
(***************************************************************************)
(* Expense tracker: the App's date navigation, the Dashboard's period      *)
(* filter / aggregation / budget alerts, the BudgetManager's budget rows   *)
(* and the record-store helpers of lib/utils.                              *)
(*                                                                         *)
(* Conventions.  A JavaScript string is a sequence of one-character        *)
(* strings.  A Date object is its instant, in hours since                  *)
(* 2023-01-01T00:00Z; the host's time zone is a fixed offset tz (hours     *)
(* east of UTC, no daylight saving).  Amounts are integers (minor units).  *)
(* A percentage spent / limit * 100 is kept as the exact fraction          *)
(* (spent * 100) / limit and compared by cross-multiplication.             *)
(***************************************************************************)
EXTENDS Integers, Sequences, FiniteSets, TLC

VARIABLES
    tz,             \* host time zone offset used by Date's local accessors
    storeTx,        \* record store: rows of table transactions
    storeBudgets,   \* record store: rows of table budgets
    currentDate,    \* App state
    selectedMonth,  \* App state, prop of Dashboard and BudgetManager
    timeView,       \* App state, prop of Dashboard
    transactions,   \* App state, prop of Dashboard
    monthlyStats,   \* Dashboard state
    budgetAlerts,   \* Dashboard state
    alertTasks,     \* checkBudgetAlerts calls suspended at an await
    budgets,        \* BudgetManager state
    budgetRows,     \* BudgetManager: the rows rendered from budgets
    isLoading,      \* BudgetManager state
    error,          \* BudgetManager state
    calls,          \* handler invocations suspended at an await
    history,        \* what the handler invocations have done so far
    isAuthenticated,\* App state
    appCategories,  \* App state categories
    appIsLoading    \* App state isLoading

vars == << tz, storeTx, storeBudgets, currentDate, selectedMonth, timeView,
           transactions, monthlyStats, budgetAlerts, alertTasks, budgets,
           budgetRows, isLoading, error, calls, history, isAuthenticated,
           appCategories, appIsLoading >>

\* The state of the handlers of BudgetManager and of the transaction handlers.
handlerVars == << isLoading, error, calls, history >>

\* The App's sign-in state and what initializeApp sets.
sessionVars == << isAuthenticated, appCategories, appIsLoading >>

\* A null string value, and the null an embedded join yields for a missing row.
Null == "null"
NullRow == [null |-> TRUE]

-----------------------------------------------------------------------------
(* Strings *)

Digits == << "0", "1", "2", "3", "4", "5", "6", "7", "8", "9" >>

DigitVal(c) == CHOOSE i \in 0..9 : Digits[i + 1] = c

\* Code unit order of the characters that occur in dates: "-" sorts before "0".
CharCode(c) == IF c = "-" THEN 0 ELSE 1 + DigitVal(c)

Pad2(n) == << Digits[(n \div 10) + 1], Digits[(n % 10) + 1] >>

Pad4(n) == << Digits[(n \div 1000) + 1], Digits[((n \div 100) % 10) + 1],
              Digits[((n \div 10) % 10) + 1], Digits[(n % 10) + 1] >>

RECURSIVE NumVal(_)
NumVal(s) == IF s = << >> THEN 0
             ELSE 10 * NumVal(SubSeq(s, 1, Len(s) - 1)) + DigitVal(s[Len(s)])

\* String.prototype.startsWith
StartsWith(s, p) == Len(p) <= Len(s) /\ SubSeq(s, 1, Len(p)) = p

\* String.prototype.slice(0, n)
Slice0(s, n) == SubSeq(s, 1, IF n < Len(s) THEN n ELSE Len(s))

\* String.prototype.split(sep) for a one-character separator
RECURSIVE SplitFrom(_, _, _, _)
SplitFrom(s, sep, i, cur) ==
    IF i > Len(s) THEN << cur >>
    ELSE IF s[i] = sep THEN << cur >> \o SplitFrom(s, sep, i + 1, << >>)
    ELSE SplitFrom(s, sep, i + 1, Append(cur, s[i]))

Split(s, sep) == SplitFrom(s, sep, 1, << >>)

\* The order in which the store compares a date column with a date literal:
\* ISO calendar dates order as their text does.
RECURSIVE StrLess(_, _)
StrLess(a, b) ==
    IF b = << >> THEN FALSE
    ELSE IF a = << >> THEN TRUE
    ELSE IF a[1] # b[1] THEN CharCode(a[1]) < CharCode(b[1])
    ELSE StrLess(Tail(a), Tail(b))

StrGeq(a, b) == ~StrLess(a, b)

-----------------------------------------------------------------------------
(* Calendar *)

\* The calendar years the model knows; day 0 is 2023-01-01.
Years == 2023..2025

IsLeap(y) == (y % 4 = 0 /\ y % 100 # 0) \/ y % 400 = 0

DaysInMonth(y, m) ==
    IF m = 2 THEN (IF IsLeap(y) THEN 29 ELSE 28)
    ELSE IF m \in {4, 6, 9, 11} THEN 30 ELSE 31

RECURSIVE DaysBeforeYear(_)
DaysBeforeYear(y) ==
    IF y <= 2023 THEN 0
    ELSE DaysBeforeYear(y - 1) + (IF IsLeap(y - 1) THEN 366 ELSE 365)

RECURSIVE DaysBeforeMonth(_, _)
DaysBeforeMonth(y, m) ==
    IF m <= 1 THEN 0 ELSE DaysBeforeMonth(y, m - 1) + DaysInMonth(y, m - 1)

\* Day number of the calendar date y-m-d; d may lie outside the month, as in
\* Date's setters, and then runs over into the neighbouring months.
MonthStart == [y \in Years |-> [m \in 1..12 |-> DaysBeforeYear(y) + DaysBeforeMonth(y, m)]]

DayNum(y, m, d) == MonthStart[y][m] + d - 1

MaxDayNum == DayNum(2025, 12, 31)

CivilCalc(n) ==
    LET y == CHOOSE yy \in Years :
                 DayNum(yy, 1, 1) <= n /\ n <= DayNum(yy, 12, 31)
        m == CHOOSE mm \in 1..12 :
                 DayNum(y, mm, 1) <= n /\ n <= DayNum(y, mm, DaysInMonth(y, mm))
    IN  [year |-> y, month |-> m, day |-> n - DayNum(y, m, 1) + 1]

CivilTable == [n \in 0..MaxDayNum |-> CivilCalc(n)]

Civil(n) == CivilTable[n]

\* 2023-01-01 was a Sunday.
Weekday(n) == n % 7

FormatDate(c) == Pad4(c.year) \o << "-" >> \o Pad2(c.month) \o << "-" >> \o Pad2(c.day)

-----------------------------------------------------------------------------
(* JavaScript Date *)

\* new Date(s) for the date-only forms "YYYY-MM-DD" and "YYYY-MM": midnight UTC.
NewDate(s) ==
    LET p == Split(s, "-")
    IN  24 * DayNum(NumVal(p[1]), NumVal(p[2]), IF Len(p) >= 3 THEN NumVal(p[3]) ELSE 1)

\* The local calendar fields of an instant.
LocalDay(inst, z) == (inst + z) \div 24
LocalHour(inst, z) == (inst + z) % 24
GetDate(inst, z) == Civil(LocalDay(inst, z)).day
GetDay(inst, z) == Weekday(LocalDay(inst, z))
GetMonth(inst, z) == Civil(LocalDay(inst, z)).month - 1

\* Date.prototype.setDate: the local day of the month is replaced; the local
\* year, month and time of day are kept.
SetDate(inst, dom, z) ==
    LET c == Civil(LocalDay(inst, z))
    IN  24 * DayNum(c.year, c.month, dom) + LocalHour(inst, z) - z

\* Date.prototype.setMonth: the local month index is replaced (an index outside
\* 0..11 moves the year); the local day of the month and time of day are kept,
\* so a day the target month lacks runs over into the next month.
SetMonth(inst, mi, z) ==
    LET c == Civil(LocalDay(inst, z))
        y == c.year + (IF mi < 0 THEN -1 ELSE IF mi > 11 THEN 1 ELSE 0)
        m == (IF mi < 0 THEN mi + 12 ELSE IF mi > 11 THEN mi - 12 ELSE mi) + 1
    IN  24 * DayNum(y, m, c.day) + LocalHour(inst, z) - z

\* date.toISOString().split('T')[0]: the UTC calendar date.
ISODate(inst) == FormatDate(Civil(inst \div 24))

-----------------------------------------------------------------------------
(* Record store: tables and the rows the model draws from *)

\* Table categories.  "Other" is a custom category a user created under that
\* name; "Bills" was inserted with a null color.
Categories ==
    { [id |-> "c1", name |-> "Food", type |-> "expense", icon |-> "Utensils", color |-> "#F87171"],
      [id |-> "c2", name |-> "Salary", type |-> "income", icon |-> "Briefcase", color |-> "#10B981"],
      [id |-> "c3", name |-> "Other", type |-> "expense", icon |-> "Tag", color |-> "#3B82F6"],
      [id |-> "c4", name |-> "Bills", type |-> "expense", icon |-> "Zap", color |-> Null] }

D(y, m, d) == FormatDate([year |-> y, month |-> m, day |-> d])

Tx(id, type, amount, cat, date) ==
    [id |-> id, type |-> type, amount |-> amount, category_id |-> cat, date |-> date]

\* Rows of table transactions.  Row t3's category is not visible to the join;
\* row t6 is an income booked under an expense category.
TxPool ==
    { Tx("t1", "expense", 50, "c1", D(2024, 6, 1)),
      Tx("t2", "income", 1000, "c2", D(2024, 6, 2)),
      Tx("t3", "expense", 30, "c9", D(2024, 6, 12)),
      Tx("t4", "expense", 20, "c3", D(2024, 6, 12)),
      Tx("t5", "expense", 80, "c1", D(2024, 6, 9)),
      Tx("t6", "income", 5, "c1", D(2024, 6, 8)),
      Tx("t7", "expense", 40, "c4", D(2024, 7, 1)) }

\* A row of table budgets. Timestamps are logical: the number of handler
\* invocations the user had started when the row was written, 0 for the rows
\* the store holds from the beginning.
Budget(id, cat, limit, month) ==
    [id |-> id, category_id |-> cat, limit_amount |-> limit, month |-> month,
     created_at |-> 0, updated_at |-> 0]

\* The month key of a budget is the selectedMonth it was created under.
MonthKey(y, m) == Slice0(D(y, m, 1), 7)

BudgetPool ==
    { Budget("b1", "c1", 100, MonthKey(2024, 6)),
      Budget("b2", "c4", 50, MonthKey(2024, 6)) }

\* The embedded join categories(*) of a select: the category row, or null.
JoinCategory(t) ==
    IF \E c \in Categories : c.id = t.category_id
    THEN CHOOSE c \in Categories : c.id = t.category_id
    ELSE NullRow

WithCategory(t) ==
    [id |-> t.id, type |-> t.type, amount |-> t.amount, category_id |-> t.category_id,
     date |-> t.date, categories |-> JoinCategory(t)]

\* All sequences that list every element of S once.
Orderings(S) ==
    { f \in [1..Cardinality(S) -> S] : \A i, j \in 1..Cardinality(S) : f[i] = f[j] => i = j }

\* getTransactions(): every row with its category, ordered by date descending;
\* the order among rows of one date is the store's choice.
GetTransactions(rows) ==
    { [i \in 1..Len(f) |-> WithCategory(f[i])] :
        f \in { g \in Orderings(rows) :
                  \A i \in 1..(Cardinality(rows) - 1) : StrGeq(g[i].date, g[i + 1].date) } }

\* getBudgets(month): the rows whose month equals the key, in the store's order.
GetBudgets(rows, month) == Orderings({ b \in rows : b.month = month })

RECURSIVE SumAmount(_)
SumAmount(S) ==
    IF S = {} THEN 0
    ELSE LET t == CHOOSE x \in S : TRUE IN t.amount + SumAmount(S \ {t})

\* getCategorySpending(categoryId, month) on the rows of table transactions.
GetCategorySpending(rows, categoryId, month, z) ==
    LET startDate == month
        endDate == SetMonth(NewDate(month), GetMonth(NewDate(month), z) + 1, z)
        endDateStr == ISODate(endDate)
        data == { t \in rows : /\ t.category_id = categoryId
                               /\ t.type = "expense"
                               /\ StrGeq(t.date, startDate)
                               /\ StrLess(t.date, endDateStr) }
    IN  SumAmount(data)

-----------------------------------------------------------------------------
(* Dashboard: period filter and aggregation *)

\* InPeriod with the month prefix cut after the year.
InPeriodYearOnly(t, month, view, z) ==
    IF view = "day" THEN t.date = month
    ELSE IF view = "week" THEN
        LET date == NewDate(month)
            startOfWeek == SetDate(date, GetDate(date, z) - GetDay(date, z), z)
            endOfWeek == SetDate(startOfWeek, GetDate(startOfWeek, z) + 6, z)
            tDate == NewDate(t.date)
        IN  tDate >= startOfWeek /\ tDate <= endOfWeek
    ELSE StartsWith(t.date, Split(month, "-")[1])

\* The period filter shared by calculateStats and getExpensesByCategory; the
\* reference the Dashboard has is its prop selectedMonth.
InPeriod(t, month, view, z) ==
    IF view = "day" THEN t.date = month
    ELSE IF view = "week" THEN
        LET date == NewDate(month)
            startOfWeek == SetDate(date, GetDate(date, z) - GetDay(date, z), z)
            endOfWeek == SetDate(startOfWeek, GetDate(startOfWeek, z) + 6, z)
            tDate == NewDate(t.date)
        IN  tDate >= startOfWeek /\ tDate <= endOfWeek
    ELSE
        LET p == Split(month, "-")
        IN  StartsWith(t.date, p[1] \o << "-" >> \o p[2])

FilterStats(txs, month, view, z) ==
    SelectSeq(txs, LAMBDA t : InPeriod(t, month, view, z))

FilterExpenses(txs, month, view, z) ==
    SelectSeq(txs, LAMBDA t : InPeriod(t, month, view, z) /\ t.type = "expense")

RECURSIVE SumSeq(_)
SumSeq(s) == IF s = << >> THEN 0 ELSE s[1].amount + SumSeq(Tail(s))

\* CalcStats with the type test of the expenses total left out.
CalcStatsAllExpenses(txs, month, view, z) ==
    LET filtered == SelectSeq(txs, LAMBDA t : InPeriod(t, month, view, z))
        income == SumSeq(SelectSeq(filtered, LAMBDA t : t.type = "income"))
        expenses == SumSeq(filtered)
    IN  [income |-> income, expenses |-> expenses, net |-> income - expenses]

\* CalcStats with the operands of net swapped.
CalcStatsNetSwapped(txs, month, view, z) ==
    LET filtered == SelectSeq(txs, LAMBDA t : InPeriod(t, month, view, z))
        income == SumSeq(SelectSeq(filtered, LAMBDA t : t.type = "income"))
        expenses == SumSeq(SelectSeq(filtered, LAMBDA t : t.type = "expense"))
    IN  [income |-> income, expenses |-> expenses, net |-> expenses - income]

\* The value calculateStats passes to setMonthlyStats.
CalcStats(txs, month, view, z) ==
    LET filtered == FilterStats(txs, month, view, z)
        income == SumSeq(SelectSeq(filtered, LAMBDA t : t.type = "income"))
        expenses == SumSeq(SelectSeq(filtered, LAMBDA t : t.type = "expense"))
    IN  [income |-> income, expenses |-> expenses, net |-> income - expenses]

OrElse(v, fallback) == IF v = Null \/ v = "" THEN fallback ELSE v

CategoryName(trans) ==
    IF trans.categories = NullRow THEN "Other" ELSE OrElse(trans.categories.name, "Other")

BucketFor(trans) ==
    [name |-> CategoryName(trans),
     amount |-> 0,
     color |-> IF trans.categories = NullRow THEN "#6B7280"
               ELSE OrElse(trans.categories.color, "#6B7280"),
     icon |-> IF trans.categories = NullRow THEN "Package"
              ELSE OrElse(trans.categories.icon, "Package")]

\* GroupStep with the amount assigned instead of added.
GroupStepAssign(acc, trans) ==
    LET acc1 == IF \E i \in 1..Len(acc) : acc[i].name = CategoryName(trans)
                THEN acc ELSE Append(acc, BucketFor(trans))
    IN  [i \in 1..Len(acc1) |->
            IF acc1[i].name = CategoryName(trans)
            THEN [acc1[i] EXCEPT !.amount = trans.amount]
            ELSE acc1[i]]

\* GroupStep with color and icon taken from every transaction, not the first.
GroupStepLastSeen(acc, trans) ==
    LET acc1 == IF \E i \in 1..Len(acc) : acc[i].name = CategoryName(trans)
                THEN acc ELSE Append(acc, BucketFor(trans))
    IN  [i \in 1..Len(acc1) |->
            IF acc1[i].name = CategoryName(trans)
            THEN [BucketFor(trans) EXCEPT !.amount = acc1[i].amount + trans.amount]
            ELSE acc1[i]]

\* One step of the reduce in getExpensesByCategory; acc keeps its keys in
\* insertion order, as Object.entries returns them.
GroupStep(acc, trans) ==
    LET categoryName == CategoryName(trans)
        acc1 == IF \E i \in 1..Len(acc) : acc[i].name = categoryName
                THEN acc ELSE Append(acc, BucketFor(trans))
    IN  [i \in 1..Len(acc1) |->
            IF acc1[i].name = categoryName
            THEN [acc1[i] EXCEPT !.amount = @ + trans.amount]
            ELSE acc1[i]]

RECURSIVE GroupFrom(_, _)
GroupFrom(acc, s) == IF s = << >> THEN acc ELSE GroupFrom(GroupStep(acc, s[1]), Tail(s))

GetExpensesByCategory(txs, month, view, z) ==
    GroupFrom(<< >>, FilterExpenses(txs, month, view, z))

\* What the Dashboard renders from its props.
expenses == GetExpensesByCategory(transactions, selectedMonth, timeView, tz)

totalExpense == SumSeq(expenses)

-----------------------------------------------------------------------------
(* Budget evaluation *)

\* (spent / limit) * 100 as an exact fraction; limit > 0 by the table's check.
Percentage(spent, limit) == [num |-> spent * 100, den |-> limit]

PctGeq(p, n) == p.num >= n * p.den
PctGt(p, n) == p.num > n * p.den

\* IsAlert with a strict comparison.
IsAlertStrict(percentage) == PctGt(percentage, 80)

\* checkBudgetAlerts: the test that decides whether a budget raises an alert.
IsAlert(percentage) == PctGeq(percentage, 80)

\* App's categories state once initializeApp has loaded it.
categories == Categories

FindCategoryName(cats, id) ==
    IF \E c \in cats : c.id = id
    THEN OrElse((CHOOSE c \in cats : c.id = id).name, "Unknown")
    ELSE "Unknown"

\* One pass of the loop body of checkBudgetAlerts, with the spent it awaited.
AlertStep(alerts, budget, spent) ==
    LET percentage == Percentage(spent, budget.limit_amount)
    IN  IF IsAlert(percentage)
        THEN Append(alerts, [categoryName |-> FindCategoryName(categories, budget.category_id),
                             spent |-> spent,
                             limit |-> budget.limit_amount,
                             percentage |-> percentage])
        ELSE alerts

\* A checkBudgetAlerts call suspended at await getBudgets(selectedMonth).
NewAlertTask(month) ==
    [month |-> month, pc |-> "getBudgets", fetched |-> << >>, i |-> 0, alerts |-> << >>]

\* BudgetRow with the over-budget test not strict.
BudgetRowOverAt100(budget) ==
    LET percentage == Percentage(budget.spent, budget.limit_amount)
        isOverBudget == PctGeq(percentage, 100)
        isWarning == PctGeq(percentage, 80)
    IN  [id |-> budget.id,
         style |-> IF isOverBudget THEN "red" ELSE IF isWarning THEN "amber" ELSE "slate",
         bar |-> IF isOverBudget THEN "red" ELSE IF isWarning THEN "amber" ELSE "green",
         overBy |-> IF isOverBudget THEN << budget.spent - budget.limit_amount >> ELSE << >>]

\* BudgetManager: what one budget row renders.
BudgetRow(budget) ==
    LET percentage == Percentage(budget.spent, budget.limit_amount)
        isOverBudget == PctGt(percentage, 100)
        isWarning == PctGeq(percentage, 80)
    IN  [id |-> budget.id,
         style |-> IF isOverBudget THEN "red" ELSE IF isWarning THEN "amber" ELSE "slate",
         bar |-> IF isOverBudget THEN "red" ELSE IF isWarning THEN "amber" ELSE "green",
         overBy |-> IF isOverBudget THEN << budget.spent - budget.limit_amount >> ELSE << >>]

-----------------------------------------------------------------------------
(* Bounds *)

MaxTx == 2          \* rows in table transactions
MaxTasks == 1       \* checkBudgetAlerts calls in flight
NavSpan == 16       \* days the user navigates away from 2024-06-15
MaxSpent == 130     \* largest spent of a drawn budget row

\* Hosts west of Greenwich and at or east of it; every offset in 0..23 gives
\* the local fields of a midnight-UTC instant the same calendar day.
TimezoneOffsets == {-5, 0}

NavCenter == DayNum(2024, 6, 15)

InNavWindow(date) ==
    LET n == NewDate(date) \div 24
    IN  n >= NavCenter - NavSpan /\ n <= NavCenter + NavSpan

-----------------------------------------------------------------------------
(* App and Dashboard *)

DashboardEffectAlways(txs, month, view) ==
    /\ monthlyStats' = CalcStats(txs, month, view, tz)
    /\ alertTasks' = Append(alertTasks, NewAlertTask(month))

\* The Dashboard's effect on [transactions, selectedMonth, timeView]:
\* calculateStats up to its first await.
DashboardEffect(txs, month, view) ==
    /\ monthlyStats' = CalcStats(txs, month, view, tz)
    /\ alertTasks' = IF view = "month" THEN Append(alertTasks, NewAlertTask(month))
                     ELSE alertTasks

CanStart(view) == view = "month" => Len(alertTasks) < MaxTasks

NextDate(date, view, direction, z) ==
    LET d == NewDate(date)
        moved == IF view = "day"
                 THEN SetDate(d, GetDate(d, z) + (IF direction = "next" THEN 1 ELSE -1), z)
                 ELSE IF view = "week"
                 THEN SetDate(d, GetDate(d, z) + (IF direction = "next" THEN 7 ELSE -7), z)
                 ELSE SetMonth(d, GetMonth(d, z) + (IF direction = "next" THEN 1 ELSE -1), z)
    IN  ISODate(moved)

HandleDateChange(direction) ==
    LET newDate == NextDate(currentDate, timeView, direction, tz)
        newMonth == Slice0(newDate, 7)
    IN  /\ InNavWindow(newDate)
        /\ currentDate' = newDate
        /\ selectedMonth' = newMonth
        /\ IF newMonth # selectedMonth
           THEN CanStart(timeView) /\ DashboardEffect(transactions, newMonth, timeView)
           ELSE UNCHANGED << monthlyStats, alertTasks >>
        /\ UNCHANGED << tz, storeTx, storeBudgets, timeView, transactions, budgetAlerts,
                        budgets, budgetRows >>
        /\ UNCHANGED << handlerVars, sessionVars >>

SetTimeView(view) ==
    /\ view # timeView
    /\ CanStart(view)
    /\ timeView' = view
    /\ DashboardEffect(transactions, selectedMonth, view)
    /\ UNCHANGED << tz, storeTx, storeBudgets, currentDate, selectedMonth, transactions,
                    budgetAlerts, budgets, budgetRows >>
    /\ UNCHANGED << handlerVars, sessionVars >>

RemoveAt(s, k) == SubSeq(s, 1, k - 1) \o SubSeq(s, k + 1, Len(s))

\* await getBudgets(selectedMonth) resolves; with no budget the loop is skipped
\* and setBudgetAlerts([]) runs at once.
GetBudgetsResolved(k) ==
    /\ k \in 1..Len(alertTasks)
    /\ alertTasks[k].pc = "getBudgets"
    /\ \E data \in GetBudgets(storeBudgets, alertTasks[k].month) :
          IF data = << >>
          THEN /\ budgetAlerts' = << >>
               /\ alertTasks' = RemoveAt(alertTasks, k)
          ELSE /\ alertTasks' = [alertTasks EXCEPT ![k].pc = "getCategorySpending",
                                                   ![k].fetched = data,
                                                   ![k].i = 1]
               /\ UNCHANGED budgetAlerts
    /\ UNCHANGED << tz, storeTx, storeBudgets, currentDate, selectedMonth, timeView,
                    transactions, monthlyStats, budgets, budgetRows >>
    /\ UNCHANGED << handlerVars, sessionVars >>

\* await getCategorySpending(...) resolves for the budget the loop is at; after
\* the last budget setBudgetAlerts(alerts) runs.
GetCategorySpendingResolved(k) ==
    /\ k \in 1..Len(alertTasks)
    /\ alertTasks[k].pc = "getCategorySpending"
    /\ LET task == alertTasks[k]
           budget == task.fetched[task.i]
           spent == GetCategorySpending(storeTx, budget.category_id, task.month, tz)
           alerts == AlertStep(task.alerts, budget, spent)
       IN  IF task.i = Len(task.fetched)
           THEN /\ budgetAlerts' = alerts
                /\ alertTasks' = RemoveAt(alertTasks, k)
           ELSE /\ alertTasks' = [alertTasks EXCEPT ![k].alerts = alerts, ![k].i = task.i + 1]
                /\ UNCHANGED budgetAlerts
    /\ UNCHANGED << tz, storeTx, storeBudgets, currentDate, selectedMonth, timeView,
                    transactions, monthlyStats, budgets, budgetRows >>
    /\ UNCHANGED << handlerVars, sessionVars >>

\* Either await rejects: the catch logs and the call ends; budgetAlerts stays.
AlertRequestRejected(k) ==
    /\ k \in 1..Len(alertTasks)
    /\ alertTasks' = RemoveAt(alertTasks, k)
    /\ UNCHANGED << tz, storeTx, storeBudgets, currentDate, selectedMonth, timeView,
                    transactions, monthlyStats, budgetAlerts, budgets, budgetRows >>
    /\ UNCHANGED << handlerVars, sessionVars >>

\* A handler invocation of BudgetManager: the handler, the await it is
\* suspended at, its arguments, what its awaits returned so far, and the store
\* requests the lib/utils operation it is in has issued and seen fail.
Call(handler, pc, cat, amount, month, id) ==
    [handler |-> handler, pc |-> pc, category_id |-> cat, amount |-> amount,
     month |-> month, id |-> id, fetched |-> << >>, spent |-> << >>,
     requests |-> 1, failedAt |-> 0]

NoCall == Call("none", "none", Null, 0, << >>, Null)

\* No handler of BudgetManager or of the transaction form has run.
NoHistory == [started |-> 0, inserted |-> 0, failed |-> FALSE, last |-> NoCall]

HandlersIdle ==
    /\ isLoading = FALSE
    /\ error = ""
    /\ calls = << >>
    /\ history = NoHistory

\* The user is signed in and initializeApp has ended.
SignedIn ==
    /\ isAuthenticated = TRUE
    /\ appCategories = Categories
    /\ appIsLoading = FALSE

StartDates == { D(2024, 6, 12), D(2024, 5, 31) }

\* The App after initializeApp has loaded the store's transactions and the
\* Dashboard has mounted in month view and run its effect once.
InitApp(budgetTables) ==
    /\ tz \in TimezoneOffsets
    /\ storeTx \in { S \in SUBSET TxPool : Cardinality(S) <= MaxTx }
    /\ storeBudgets \in budgetTables
    /\ currentDate \in StartDates
    /\ selectedMonth = Slice0(currentDate, 7)
    /\ timeView = "month"
    /\ transactions \in GetTransactions(storeTx)
    /\ monthlyStats = CalcStats(transactions, selectedMonth, timeView, tz)
    /\ budgetAlerts = << >>
    /\ alertTasks = << NewAlertTask(selectedMonth) >>
    /\ budgets = << >>
    /\ budgetRows = << >>
    /\ HandlersIdle
    /\ SignedIn

\* Period views over a store that holds no budget: every checkBudgetAlerts
\* call ends at its first await.
Init == InitApp({ {} })

Next ==
    \/ \E direction \in {"prev", "next"} : HandleDateChange(direction)
    \/ \E view \in {"day", "week", "month"} : SetTimeView(view)
    \/ \E k \in 1..MaxTasks : GetBudgetsResolved(k)
    \/ \E k \in 1..MaxTasks : AlertRequestRejected(k)

Spec == Init /\ [][Next]_vars

\* Budget alerts: the store holds budgets and the user stays in month view.
InitAlerts == InitApp(SUBSET BudgetPool \ { {} })

NextAlerts ==
    \/ \E direction \in {"prev", "next"} : HandleDateChange(direction)
    \/ \E k \in 1..MaxTasks : GetBudgetsResolved(k)
    \/ \E k \in 1..MaxTasks : GetCategorySpendingResolved(k)
    \/ \E k \in 1..MaxTasks : AlertRequestRejected(k)

SpecAlerts == InitAlerts /\ [][NextAlerts]_vars

\* The App from its first render: the initial selectedMonth and the initial
\* currentDate are taken from two readings of the clock, the second at the
\* same hour as the first or in the next one.
ClockReadings ==
    { << t, t + d >> : t \in { NewDate(D(2024, 5, 31)) + 23, NewDate(D(2024, 6, 12)) + 9 },
                       d \in {0, 1} }

InitClock ==
    /\ tz \in TimezoneOffsets
    /\ storeTx \in { S \in SUBSET TxPool : Cardinality(S) < MaxTx }
    /\ storeBudgets = {}
    /\ \E now \in ClockReadings :
          /\ selectedMonth = Slice0(ISODate(now[1]), 7)
          /\ currentDate = ISODate(now[2])
    /\ timeView = "month"
    /\ transactions \in GetTransactions(storeTx)
    /\ monthlyStats = CalcStats(transactions, selectedMonth, timeView, tz)
    /\ budgetAlerts = << >>
    /\ alertTasks = << NewAlertTask(selectedMonth) >>
    /\ budgets = << >>
    /\ budgetRows = << >>
    /\ HandlersIdle
    /\ SignedIn

SpecClock == InitClock /\ [][Next]_vars

\* Overlapping alert checks: the Dashboard mounted on 2024-06-12, the user
\* clicked 'next' and both checkBudgetAlerts calls, the one for June and the one
\* for July, are at their first await.  The store answers every request.
InitStale ==
    /\ tz \in TimezoneOffsets
    /\ storeTx \in { S \in SUBSET TxPool : Cardinality(S) <= MaxTx }
    /\ storeBudgets \in SUBSET BudgetPool \ { {} }
    /\ currentDate = NextDate(D(2024, 6, 12), "month", "next", tz)
    /\ selectedMonth = Slice0(currentDate, 7)
    /\ timeView = "month"
    /\ transactions \in GetTransactions(storeTx)
    /\ monthlyStats = CalcStats(transactions, selectedMonth, timeView, tz)
    /\ budgetAlerts = << >>
    /\ alertTasks = << NewAlertTask(Slice0(D(2024, 6, 12), 7)), NewAlertTask(selectedMonth) >>
    /\ budgets = << >>
    /\ budgetRows = << >>
    /\ HandlersIdle
    /\ SignedIn

NextStale ==
    \/ \E direction \in {"prev", "next"} : HandleDateChange(direction)
    \/ \E k \in 1..(MaxTasks + 1) : GetBudgetsResolved(k)
    \/ \E k \in 1..(MaxTasks + 1) : GetCategorySpendingResolved(k)

SpecStale == InitStale /\ [][NextStale]_vars

\* Budget alerts across the three time views: the store holds budgets for
\* June 2024 and an expense that puts budget b1 at 80 percent.
InitViews ==
    /\ storeTx \in { { Tx("t5", "expense", 80, "c1", D(2024, 6, 9)) },
                      { Tx("t5", "expense", 80, "c1", D(2024, 6, 9)),
                        Tx("t7", "expense", 40, "c4", D(2024, 7, 1)) } }
    /\ InitApp({ { Budget("b1", "c1", 100, MonthKey(2024, 6)) }, BudgetPool })

NextViews ==
    \/ \E direction \in {"prev", "next"} : HandleDateChange(direction)
    \/ \E view \in {"day", "week", "month"} : SetTimeView(view)
    \/ \E k \in 1..MaxTasks : GetBudgetsResolved(k)
    \/ \E k \in 1..MaxTasks : GetCategorySpendingResolved(k)
    \/ \E k \in 1..MaxTasks : AlertRequestRejected(k)

SpecViews == InitViews /\ [][NextViews]_vars

-----------------------------------------------------------------------------
(* BudgetManager rows *)

\* A BudgetWithSpending as loadBudgets builds it.
BudgetWithSpending(budget, spent) ==
    [id |-> budget.id, category_id |-> budget.category_id,
     limit_amount |-> budget.limit_amount, month |-> budget.month,
     spent |-> spent,
     categoryName |-> FindCategoryName(categories, budget.category_id)]

\* The (spent, limit) pairs drawn for a row: every spent up to MaxSpent against
\* two limits, and the ratios 0.79999, 0.8, 1 and 1.0001 at a larger scale.
RowInputs ==
    ((0..MaxSpent) \X {50, 100})
        \cup { << 79999, 100000 >>, << 80000, 100000 >>, << 100000, 100000 >>,
               << 100010, 100000 >> }

InitRows ==
    /\ tz = 0
    /\ storeTx = {}
    /\ storeBudgets = {}
    /\ currentDate = D(2024, 6, 12)
    /\ selectedMonth = Slice0(currentDate, 7)
    /\ timeView = "month"
    /\ transactions = << >>
    /\ monthlyStats = [income |-> 0, expenses |-> 0, net |-> 0]
    /\ budgetAlerts = << >>
    /\ alertTasks = << >>
    /\ \E pair \in RowInputs :
          budgets = << BudgetWithSpending(Budget("b1", "c1", pair[2], selectedMonth), pair[1]) >>
    /\ budgetRows = << >>
    /\ HandlersIdle
    /\ SignedIn

\* BudgetManager renders budgets.map(...).
RenderBudgets ==
    /\ budgetRows # [i \in 1..Len(budgets) |-> BudgetRow(budgets[i])]
    /\ budgetRows' = [i \in 1..Len(budgets) |-> BudgetRow(budgets[i])]
    /\ UNCHANGED << tz, storeTx, storeBudgets, currentDate, selectedMonth, timeView,
                    transactions, monthlyStats, budgetAlerts, alertTasks, budgets >>
    /\ UNCHANGED << handlerVars, sessionVars >>

SpecRows == InitRows /\ [][RenderBudgets]_vars

-----------------------------------------------------------------------------
(* Record store: table budgets *)

\* CHECK (limit_amount > 0) and UNIQUE(category_id, month) of table budgets.
LimitCheckNone(limit) == TRUE

LimitCheck(limit) == limit > 0

UniqueCheckNone(rows, row) == TRUE

UniqueCheck(rows, row) ==
    \A b \in rows : ~(b.category_id = row.category_id /\ b.month = row.month)

\* The ids the store generates for inserted budgets.
NewBudgetIds == << "n1", "n2", "n3", "n4", "n5", "n6" >>

\* select('id').eq('category_id', ..).eq('month', ..).maybeSingle(): the row,
\* null for no row, an error for more than one.
SelectBudget(rows, categoryId, month) ==
    LET found == { b \in rows : b.category_id = categoryId /\ b.month = month }
    IN  IF Cardinality(found) > 1 THEN [error |-> TRUE, data |-> Null]
        ELSE IF found = {} THEN [error |-> FALSE, data |-> Null]
        ELSE [error |-> FALSE, data |-> (CHOOSE b \in found : TRUE).id]

\* new Date() of the client and now() of the store.
Clock == history.started

UpdateBudgetKeepingLimit(rows, id, limitAmount) == [error |-> FALSE, rows |-> rows]

UpdateBudgetReplacingRow(rows, id, limitAmount) ==
    [error |-> FALSE,
     rows |-> { IF b.id = id
                THEN [b EXCEPT !.limit_amount = limitAmount, !.created_at = Clock,
                               !.updated_at = Clock]
                ELSE b : b \in rows }]

\* update({ limit_amount, updated_at }).eq('id', id).select().single(): an
\* error when the check fails or no row is left to return.
UpdateBudget(rows, id, limitAmount) ==
    IF ~LimitCheck(limitAmount) \/ ~(\E b \in rows : b.id = id)
    THEN [error |-> TRUE, rows |-> rows]
    ELSE [error |-> FALSE,
          rows |-> { IF b.id = id
                     THEN [b EXCEPT !.limit_amount = limitAmount, !.updated_at = Clock]
                     ELSE b : b \in rows }]

\* insert([{ category_id, limit_amount, month }]).select().single(); the
\* store fills created_at and updated_at with now().
InsertBudget(rows, row) ==
    IF ~LimitCheck(row.limit_amount) \/ ~UniqueCheck(rows, row)
    THEN [error |-> TRUE, rows |-> rows]
    ELSE [error |-> FALSE,
          rows |-> rows \cup { [row EXCEPT !.created_at = Clock, !.updated_at = Clock] }]

DeleteBudgetOfMonth(rows, id) ==
    { b \in rows : \A d \in rows : d.id = id => b.month # d.month }

\* delete().eq('id', id)
DeleteBudget(rows, id) == { b \in rows : b.id # id }

-----------------------------------------------------------------------------
(* BudgetManager: loadBudgets, handleAddBudget, handleDeleteBudget *)

MaxCalls == 2       \* handler invocations in flight
MaxOps == 2         \* handler invocations the user starts

\* What the user leaves in the amount field, and the categories picked.
AmountInputs == { << >>, << "0" >>, << "-", "5" >>, << "6", "0" >>, << "9", "0" >> }
BudgetCategoryInputs == { "c1", "c2" }

\* parseFloat of a non-empty decimal literal.
ParseFloat(s) == IF Head(s) = "-" THEN 0 - NumVal(Tail(s)) ELSE NumVal(s)

allCategories == categories

expenseCategories == { c \in categories : c.type = "expense" }
usedCategoryIds == { budgets[i].category_id : i \in 1..Len(budgets) }
availableCategories == { c.id : c \in expenseCategories } \ usedCategoryIds

\* The ids of the rows whose delete button is disabled.
deletingIds == { calls[k].id : k \in { j \in 1..Len(calls) : calls[j].handler = "delete" } }

\* A handler invocation ends: with a store error if failed.
Ended(h, call, failed) ==
    [h EXCEPT !.last = [call EXCEPT !.failedAt = IF failed THEN call.requests ELSE 0,
                                    !.fetched = << >>],
              !.failed = @ \/ failed]

\* setBudget after its existence lookup: throw, update or insert.
SetBudgetBranchIgnoringError(existError, existing) ==
    IF existing # Null THEN "update" ELSE "insert"

SetBudgetBranch(existError, existing) ==
    IF existError THEN "throw"
    ELSE IF existing # Null THEN "update" ELSE "insert"

\* loadBudgets' catch leaves the displayed budgets as they are.
LoadBudgetsCatchPartial(shown, partial) == partial

LoadBudgetsCatch(shown, partial) == shown

\* The budgets of a loadBudgets call whose spend fetch has resolved.
Resolved(call) ==
    LET I == { i \in 1..Len(call.fetched) : call.spent[i] # -1 }
        f == CHOOSE g \in Orderings(I) : \A i \in 1..(Len(g) - 1) : g[i] < g[i + 1]
    IN  [j \in 1..Cardinality(I) |-> BudgetWithSpending(call.fetched[f[j]], call.spent[f[j]])]

Rendered(list) == [i \in 1..Len(list) |-> BudgetRow(list[i])]

appVars == << tz, storeTx, currentDate, selectedMonth, timeView, transactions,
              monthlyStats, budgetAlerts, alertTasks, sessionVars >>

\* The user clicks Add Budget with the form as filled in.
HandleAddBudget(newBudgetCategory, newBudgetAmount) ==
    /\ history.started < MaxOps
    /\ IF newBudgetCategory = "" \/ newBudgetAmount = << >>
       THEN /\ error' = "Please fill in all fields"
            /\ UNCHANGED calls
       ELSE /\ Len(calls) < MaxCalls
            /\ newBudgetCategory \in availableCategories
            /\ error' = ""
            /\ calls' = Append(calls, Call("add", "lookup", newBudgetCategory,
                                           ParseFloat(newBudgetAmount), selectedMonth, Null))
    /\ history' = [history EXCEPT !.started = @ + 1]
    /\ UNCHANGED << appVars, storeBudgets, budgets, budgetRows, isLoading >>

\* setBudget: the existence lookup returns.
SetBudgetLookupResolved(k) ==
    /\ k \in 1..Len(calls)
    /\ calls[k].pc = "lookup"
    /\ LET call == calls[k]
           found == SelectBudget(storeBudgets, call.category_id, call.month)
       IN  \E existError \in {found.error, TRUE} :
              LET next == SetBudgetBranch(existError, found.data)
              IN  IF next = "throw"
                  THEN /\ error' = "Failed to add budget"
                       /\ calls' = RemoveAt(calls, k)
                       /\ history' = Ended(history, call, TRUE)
                  ELSE /\ calls' = [calls EXCEPT ![k].pc = next,
                                                 ![k].id = found.data,
                                                 ![k].requests = 2,
                                                 ![k].failedAt = IF existError THEN 1 ELSE 0]
                       /\ UNCHANGED << error, history >>
    /\ UNCHANGED << appVars, storeBudgets, budgets, budgetRows, isLoading >>

\* setBudget: the update or the insert returns; on success handleAddBudget
\* clears the form and calls loadBudgets.
SetBudgetWriteResolved(k) ==
    /\ k \in 1..Len(calls)
    /\ calls[k].pc \in {"update", "insert"}
    /\ LET call == calls[k]
           row == Budget(NewBudgetIds[history.inserted + 1], call.category_id,
                         call.amount, call.month)
           done == IF call.pc = "update"
                   THEN UpdateBudget(storeBudgets, call.id, call.amount)
                   ELSE InsertBudget(storeBudgets, row)
       IN  \E failed \in {done.error, TRUE} :
              IF failed
              THEN /\ error' = "Failed to add budget"
                   /\ calls' = RemoveAt(calls, k)
                   /\ history' = Ended(history, call, TRUE)
                   /\ UNCHANGED << storeBudgets, isLoading >>
              ELSE /\ storeBudgets' = done.rows
                   /\ isLoading' = TRUE
                   /\ calls' = [calls EXCEPT ![k].pc = "getBudgets", ![k].requests = 1]
                   /\ history' = [history EXCEPT
                                    !.inserted = IF call.pc = "insert" THEN @ + 1 ELSE @]
                   /\ UNCHANGED error
    /\ UNCHANGED << appVars, budgets, budgetRows >>

\* The user clicks the delete button of a displayed budget.
HandleDeleteBudget(i) ==
    /\ history.started < MaxOps
    /\ Len(calls) < MaxCalls
    /\ ~isLoading
    /\ i \in 1..Len(budgets)
    /\ budgets[i].id \notin deletingIds
    /\ calls' = Append(calls, Call("delete", "delete", budgets[i].category_id, 0,
                                   selectedMonth, budgets[i].id))
    /\ history' = [history EXCEPT !.started = @ + 1]
    /\ UNCHANGED << appVars, storeBudgets, budgets, budgetRows, isLoading, error >>

\* deleteBudget returns; on success handleDeleteBudget calls loadBudgets.
DeleteBudgetResolved(k) ==
    /\ k \in 1..Len(calls)
    /\ calls[k].pc = "delete"
    /\ \E failed \in BOOLEAN :
          IF failed
          THEN /\ error' = "Failed to delete budget"
               /\ calls' = RemoveAt(calls, k)
               /\ history' = Ended(history, calls[k], TRUE)
               /\ UNCHANGED << storeBudgets, isLoading >>
          ELSE /\ storeBudgets' = DeleteBudget(storeBudgets, calls[k].id)
               /\ isLoading' = TRUE
               /\ calls' = [calls EXCEPT ![k].pc = "getBudgets"]
               /\ UNCHANGED << error, history >>
    /\ UNCHANGED << appVars, budgets, budgetRows >>

\* loadBudgets: getBudgets(selectedMonth) returns and the spend fetches of all
\* its rows are issued together; Promise.all of no fetch resolves at once.
LoadGetBudgetsResolved(k) ==
    /\ k \in 1..Len(calls)
    /\ calls[k].pc = "getBudgets"
    /\ \E data \in GetBudgets(storeBudgets, calls[k].month) :
          IF data = << >>
          THEN /\ budgets' = << >>
               /\ budgetRows' = << >>
               /\ isLoading' = FALSE
               /\ calls' = RemoveAt(calls, k)
               /\ history' = Ended(history, calls[k], FALSE)
          ELSE /\ calls' = [calls EXCEPT ![k].pc = "spending",
                                         ![k].fetched = data,
                                         ![k].spent = [i \in 1..Len(data) |-> -1],
                                         ![k].requests = 1]
               /\ UNCHANGED << budgets, budgetRows, isLoading, history >>
    /\ UNCHANGED << appVars, storeBudgets, error >>

\* loadBudgets: one getCategorySpending returns; after the last one
\* setBudgets(budgetsWithSpending) runs.
LoadSpendingResolved(k, i) ==
    /\ k \in 1..Len(calls)
    /\ calls[k].pc = "spending"
    /\ i \in 1..Len(calls[k].fetched)
    /\ calls[k].spent[i] = -1
    /\ LET call == calls[k]
           spent == GetCategorySpending(storeTx, call.fetched[i].category_id, call.month, tz)
           now == [call EXCEPT !.spent[i] = spent]
       IN  IF \A j \in 1..Len(now.fetched) : now.spent[j] # -1
           THEN /\ budgets' = Resolved(now)
                /\ budgetRows' = Rendered(Resolved(now))
                /\ isLoading' = FALSE
                /\ calls' = RemoveAt(calls, k)
                /\ history' = Ended(history, now, FALSE)
           ELSE /\ calls' = [calls EXCEPT ![k] = now]
                /\ UNCHANGED << budgets, budgetRows, isLoading, history >>
    /\ UNCHANGED << appVars, storeBudgets, error >>

\* loadBudgets: getBudgets or a getCategorySpending rejects.
LoadRejected(k) ==
    /\ k \in 1..Len(calls)
    /\ calls[k].pc \in {"getBudgets", "spending"}
    /\ budgets' = LoadBudgetsCatch(budgets, Resolved(calls[k]))
    /\ budgetRows' = Rendered(budgets')
    /\ error' = "Failed to load budgets"
    /\ isLoading' = FALSE
    /\ calls' = RemoveAt(calls, k)
    /\ history' = Ended(history, calls[k], TRUE)
    /\ UNCHANGED << appVars, storeBudgets >>

\* The budget manager has just been opened in month view: its mount effect's
\* loadBudgets is at its first await.
InitManager(zones, txTables, budgetTables, tasks) ==
    /\ tz \in zones
    /\ storeTx \in txTables
    /\ storeBudgets \in budgetTables
    /\ currentDate = D(2024, 6, 12)
    /\ selectedMonth = Slice0(currentDate, 7)
    /\ timeView = "month"
    /\ transactions \in GetTransactions(storeTx)
    /\ monthlyStats = CalcStats(transactions, selectedMonth, timeView, tz)
    /\ budgetAlerts = << >>
    /\ alertTasks = tasks
    /\ budgets = << >>
    /\ budgetRows = << >>
    /\ isLoading = TRUE
    /\ error = ""
    /\ calls = << Call("mount", "getBudgets", Null, 0, selectedMonth, Null) >>
    /\ history = NoHistory
    /\ SignedIn

\* Budget creation and deletion; the Dashboard's alert check has ended and the
\* host is on UTC.
InitBudgets ==
    InitManager({0}, { { Tx("t5", "expense", 80, "c1", D(2024, 6, 9)) } },
                { {}, { Budget("b1", "c1", 100, MonthKey(2024, 6)) } }, << >>)

NextBudgets ==
    \/ \E c \in BudgetCategoryInputs, a \in AmountInputs : HandleAddBudget(c, a)
    \/ \E k \in 1..MaxCalls : SetBudgetLookupResolved(k)
    \/ \E k \in 1..MaxCalls : SetBudgetWriteResolved(k)
    \/ \E i \in 1..(1 + MaxOps) : HandleDeleteBudget(i)
    \/ \E k \in 1..MaxCalls : DeleteBudgetResolved(k)
    \/ \E k \in 1..MaxCalls : LoadGetBudgetsResolved(k)
    \/ \E k \in 1..MaxCalls, i \in 1..(1 + MaxOps) : LoadSpendingResolved(k, i)
    \/ \E k \in 1..MaxCalls : LoadRejected(k)

SpecBudgets == InitBudgets /\ [][NextBudgets]_vars

\* The budget list and the alert list being built while the budget manager
\* opens: loadBudgets and the Dashboard's checkBudgetAlerts are both in flight.
InitLoad ==
    InitManager(TimezoneOffsets,
                { {}, { Tx("t5", "expense", 80, "c1", D(2024, 6, 9)),
                        Tx("t7", "expense", 40, "c4", D(2024, 7, 1)) } },
                SUBSET BudgetPool, << NewAlertTask(Slice0(D(2024, 6, 12), 7)) >>)

NextLoad ==
    \/ \E k \in 1..MaxCalls : LoadGetBudgetsResolved(k)
    \/ \E k \in 1..MaxCalls, i \in 1..Cardinality(BudgetPool) : LoadSpendingResolved(k, i)
    \/ \E k \in 1..MaxCalls : LoadRejected(k)
    \/ \E k \in 1..MaxTasks : GetBudgetsResolved(k)
    \/ \E k \in 1..MaxTasks : GetCategorySpendingResolved(k)
    \/ \E k \in 1..MaxTasks : AlertRequestRejected(k)

SpecLoad == InitLoad /\ [][NextLoad]_vars

\* Budget creation and deletion next to records they must leave alone: the
\* store holds two budgets of different categories and transactions.
InitFrame ==
    InitManager({0}, { { Tx("t5", "expense", 80, "c1", D(2024, 6, 9)),
                         Tx("t7", "expense", 40, "c4", D(2024, 7, 1)) } },
                { BudgetPool }, << >>)

\* The user always enters the amount 60.
NextFrame ==
    \/ \E c \in BudgetCategoryInputs : HandleAddBudget(c, << "6", "0" >>)
    \/ \E k \in 1..MaxCalls : SetBudgetLookupResolved(k)
    \/ \E k \in 1..MaxCalls : SetBudgetWriteResolved(k)
    \/ \E i \in 1..Cardinality(BudgetPool) : HandleDeleteBudget(i)
    \/ \E k \in 1..MaxCalls : DeleteBudgetResolved(k)
    \/ \E k \in 1..MaxCalls : LoadGetBudgetsResolved(k)
    \/ \E k \in 1..MaxCalls, i \in 1..Cardinality(BudgetPool) : LoadSpendingResolved(k, i)
    \/ \E k \in 1..MaxCalls : LoadRejected(k)

SpecFrame == InitFrame /\ [][NextFrame]_vars

-----------------------------------------------------------------------------
(* Transactions: TransactionForm, handleAddTransaction, handleDeleteTransaction
   and the transaction operations of lib/utils.  Strings the program never
   takes apart (descriptions, frequencies, end dates) are plain strings. *)

Undefined == "undefined"

\* v || null
OrNull(v) == IF v = Undefined \/ v = "" THEN Null ELSE v

\* CHECK (amount > 0) of table transactions.
AmountCheckNone(amount) == TRUE

AmountCheck(amount) == amount > 0

Frequencies == { "daily", "weekly", "monthly", "yearly" }

\* The ids the store generates for inserted transactions.
NewTxIds == << "x1", "x2", "x3", "x4", "x5", "x6" >>

\* The row addTransaction sends to insert.
AddTransactionRow(type, amount, categoryId, date, description, isRecurring, recurringFrequency, recurringEndDate) ==
    [type |-> type, amount |-> amount, category_id |-> categoryId, date |-> date,
     description |-> OrNull(description),
     is_recurring |-> isRecurring,
     recurring_frequency |-> OrNull(recurringFrequency),
     recurring_end_date |-> OrNull(recurringEndDate)]

Stored(row, id) ==
    [id |-> id, type |-> row.type, amount |-> row.amount, category_id |-> row.category_id,
     date |-> row.date, description |-> row.description, is_recurring |-> row.is_recurring,
     recurring_frequency |-> row.recurring_frequency,
     recurring_end_date |-> row.recurring_end_date]

\* The constraints of table transactions on a row.
TxRowAccepted(row) ==
    /\ row.type \in {"income", "expense"}
    /\ AmountCheck(row.amount)
    /\ \E c \in Categories : c.id = row.category_id
    /\ row.recurring_frequency \in Frequencies \cup {Null}

InsertTransactionExpanding(rows, row, id) ==
    [error |-> FALSE,
     rows |-> rows \cup (IF row.is_recurring
                         THEN { Stored(row, id), Stored(row, NewTxIds[Len(NewTxIds)]) }
                         ELSE { Stored(row, id) })]

\* insert([row]).select('*, categories(*)').single()
InsertTransaction(rows, row, id) ==
    IF ~TxRowAccepted(row) THEN [error |-> TRUE, rows |-> rows]
    ELSE [error |-> FALSE, rows |-> rows \cup { Stored(row, id) }]

\* A row with the fields of updates replaced.
Updated(row, updates) ==
    LET val(f) == IF f \in DOMAIN updates THEN updates[f] ELSE row[f]
    IN  [id |-> row.id, type |-> val("type"), amount |-> val("amount"),
         category_id |-> val("category_id"), date |-> val("date"),
         description |-> val("description"), is_recurring |-> val("is_recurring"),
         recurring_frequency |-> val("recurring_frequency"),
         recurring_end_date |-> val("recurring_end_date")]

\* update(updates).eq('id', id).select('*, categories(*)').single()
UpdateTransaction(rows, id, updates) ==
    IF ~(\E t \in rows : t.id = id) THEN [error |-> TRUE, rows |-> rows]
    ELSE LET old == CHOOSE t \in rows : t.id = id
         IN  IF ~TxRowAccepted(Updated(old, updates)) THEN [error |-> TRUE, rows |-> rows]
             ELSE [error |-> FALSE, rows |-> (rows \ {old}) \cup { Updated(old, updates) }]

\* delete().eq('id', id)
DeleteTransaction(rows, id) == { t \in rows : t.id # id }

\* A handler invocation of App for a transaction.
TxCall(handler, pc, row, id) ==
    [handler |-> handler, pc |-> pc, category_id |-> Null, amount |-> 0,
     month |-> << >>, id |-> id, fetched |-> << >>, spent |-> << >>,
     requests |-> 1, failedAt |-> 0, row |-> row]

\* What the user leaves in the amount field of the transaction form (the
\* field refuses a negative number), and the end dates entered.
FormAmounts == { << "0" >>, << "2", "5" >> }
FormEndDates == { "", "2024-12-31" }

budgetVars == << storeBudgets, budgets, budgetRows, isLoading, error >>

\* TransactionForm's handleSubmit with the form filled in: onSubmit is App's
\* handleAddTransaction, which calls addTransaction.
HandleSubmit(type, amount, categoryId, isRecurring, recurringFrequency, recurringEndDate) ==
    /\ history.started < MaxOps
    /\ Len(calls) < MaxCalls
    /\ amount # << >>
    /\ categoryId # ""
    /\ calls' = Append(calls,
           TxCall("submit", "insert",
                  AddTransactionRow(type, ParseFloat(amount), categoryId, currentDate, Undefined,
                                    isRecurring,
                                    IF isRecurring THEN recurringFrequency ELSE Undefined,
                                    IF isRecurring THEN recurringEndDate ELSE Undefined),
                  Null))
    /\ history' = [history EXCEPT !.started = @ + 1]
    /\ UNCHANGED << tz, storeTx, currentDate, selectedMonth, timeView, transactions,
                    monthlyStats, budgetAlerts, alertTasks, budgetVars, sessionVars >>

\* addTransaction's insert returns; on success handleAddTransaction calls
\* loadTransactions, on failure it rethrows to the form.
AddTransactionResolved(k) ==
    /\ k \in 1..Len(calls)
    /\ calls[k].pc = "insert"
    /\ LET done == InsertTransaction(storeTx, calls[k].row, NewTxIds[history.inserted + 1])
       IN  \E failed \in {done.error, TRUE} :
              IF failed
              THEN /\ calls' = RemoveAt(calls, k)
                   /\ history' = Ended(history, calls[k], TRUE)
                   /\ UNCHANGED storeTx
              ELSE /\ storeTx' = done.rows
                   /\ calls' = [calls EXCEPT ![k].pc = "getTransactions"]
                   /\ history' = [history EXCEPT !.inserted = @ + 1]
    /\ UNCHANGED << tz, currentDate, selectedMonth, timeView, transactions,
                    monthlyStats, budgetAlerts, alertTasks, budgetVars, sessionVars >>

deletingTxIds == { calls[k].id : k \in { j \in 1..Len(calls) : calls[j].handler = "delete" } }

\* The user clicks the delete button of a listed transaction.
HandleDeleteTransaction(i) ==
    /\ history.started < MaxOps
    /\ Len(calls) < MaxCalls
    /\ i \in 1..Len(transactions)
    /\ transactions[i].id \notin deletingTxIds
    /\ calls' = Append(calls, TxCall("delete", "delete", NullRow, transactions[i].id))
    /\ history' = [history EXCEPT !.started = @ + 1]
    /\ UNCHANGED << tz, storeTx, currentDate, selectedMonth, timeView, transactions,
                    monthlyStats, budgetAlerts, alertTasks, budgetVars, sessionVars >>

\* deleteTransaction returns; on success handleDeleteTransaction calls
\* loadTransactions.
DeleteTransactionResolved(k) ==
    /\ k \in 1..Len(calls)
    /\ calls[k].pc = "delete"
    /\ \E failed \in BOOLEAN :
          IF failed
          THEN /\ calls' = RemoveAt(calls, k)
               /\ history' = Ended(history, calls[k], TRUE)
               /\ UNCHANGED storeTx
          ELSE /\ storeTx' = DeleteTransaction(storeTx, calls[k].id)
               /\ calls' = [calls EXCEPT ![k].pc = "getTransactions"]
               /\ UNCHANGED history
    /\ UNCHANGED << tz, currentDate, selectedMonth, timeView, transactions,
                    monthlyStats, budgetAlerts, alertTasks, budgetVars, sessionVars >>

\* loadTransactions: getTransactions returns, setTransactions(data) re-runs the
\* Dashboard's effect, and the handler ends.
LoadTransactionsResolved(k) ==
    /\ k \in 1..Len(calls)
    /\ calls[k].pc = "getTransactions"
    /\ CanStart(timeView)
    /\ \E data \in GetTransactions(storeTx) :
          /\ transactions' = data
          /\ DashboardEffect(data, selectedMonth, timeView)
    /\ calls' = RemoveAt(calls, k)
    /\ history' = Ended(history, calls[k], FALSE)
    /\ UNCHANGED << tz, storeTx, currentDate, selectedMonth, timeView, budgetAlerts,
                    budgetVars, sessionVars >>

\* loadTransactions: getTransactions rejects; the catch logs and the handler
\* ends with the list as it was.
LoadTransactionsRejected(k) ==
    /\ k \in 1..Len(calls)
    /\ calls[k].pc = "getTransactions"
    /\ calls' = RemoveAt(calls, k)
    /\ history' = Ended(history, calls[k], TRUE)
    /\ UNCHANGED << tz, storeTx, currentDate, selectedMonth, timeView, transactions,
                    monthlyStats, budgetAlerts, alertTasks, budgetVars, sessionVars >>

\* A caller of lib/utils adds a transaction with arguments of its choice.
AddTransactionCalled(amount, isRecurring, recurringFrequency) ==
    /\ history.started < MaxOps
    /\ LET row == AddTransactionRow("expense", amount, "c1", currentDate, "lunch",
                                    isRecurring, recurringFrequency, Undefined)
           done == InsertTransaction(storeTx, row, NewTxIds[history.inserted + 1])
       IN  /\ storeTx' = done.rows
           /\ history' = [history EXCEPT !.started = @ + 1,
                                         !.inserted = IF done.error THEN @ ELSE @ + 1,
                                         !.failed = @ \/ done.error]
    /\ UNCHANGED << tz, currentDate, selectedMonth, timeView, transactions, monthlyStats,
                    budgetAlerts, alertTasks, budgetVars, sessionVars, calls >>

\* The partial updates a caller of updateTransaction passes.
UpdateInputs ==
    { [amount |-> 0], [amount |-> 7], [is_recurring |-> FALSE],
      [is_recurring |-> TRUE, recurring_frequency |-> "weekly"] }

\* A caller of lib/utils updates a transaction.
UpdateTransactionCalled(id, updates) ==
    /\ history.started < MaxOps
    /\ LET done == UpdateTransaction(storeTx, id, updates)
       IN  /\ storeTx' = done.rows
           /\ history' = [history EXCEPT !.started = @ + 1, !.failed = @ \/ done.error]
    /\ UNCHANGED << tz, currentDate, selectedMonth, timeView, transactions, monthlyStats,
                    budgetAlerts, alertTasks, budgetVars, sessionVars, calls >>

\* The transactions the store holds when the App starts: none, or a monthly
\* recurring expense.
StartTxTables ==
    { {}, { Stored(AddTransactionRow("expense", 80, "c1", D(2024, 6, 9), "rent", TRUE,
                                     "monthly", Undefined), "t5") } }

\* The App after initializeApp, in month view, with the Dashboard's first
\* alert check ended.
InitTx ==
    /\ tz = 0
    /\ storeTx \in StartTxTables
    /\ storeBudgets = {}
    /\ currentDate = D(2024, 6, 12)
    /\ selectedMonth = Slice0(currentDate, 7)
    /\ timeView = "month"
    /\ transactions \in GetTransactions(storeTx)
    /\ monthlyStats = CalcStats(transactions, selectedMonth, timeView, tz)
    /\ budgetAlerts = << >>
    /\ alertTasks = << >>
    /\ budgets = << >>
    /\ budgetRows = << >>
    /\ HandlersIdle
    /\ SignedIn

NextTx ==
    \/ \E amount \in FormAmounts, isRecurring \in BOOLEAN, recurringEndDate \in FormEndDates :
          HandleSubmit("expense", amount, "c1", isRecurring, "monthly", recurringEndDate)
    \/ \E k \in 1..MaxCalls : AddTransactionResolved(k)
    \/ \E i \in 1..(1 + MaxOps) : HandleDeleteTransaction(i)
    \/ \E k \in 1..MaxCalls : DeleteTransactionResolved(k)
    \/ \E k \in 1..MaxCalls : LoadTransactionsResolved(k)
    \/ \E k \in 1..MaxCalls : LoadTransactionsRejected(k)
    \/ \E amount \in {-5, 30}, isRecurring \in BOOLEAN :
          AddTransactionCalled(amount, isRecurring, "monthly")
    \/ \E id \in {"t5", "x1"}, updates \in UpdateInputs : UpdateTransactionCalled(id, updates)
    \/ \E k \in 1..MaxTasks : GetBudgetsResolved(k)
    \/ \E k \in 1..MaxTasks : AlertRequestRejected(k)

SpecTx == InitTx /\ [][NextTx]_vars

-----------------------------------------------------------------------------
(* App: sign-in, sign-out and initializeApp *)

InitializeAppNoFinally(loading, threw) == IF threw THEN loading ELSE FALSE

\* isLoading after initializeApp's try / catch / finally: finally runs whether
\* or not an await threw.
InitializeAppFinally(loading, threw) == FALSE

\* The Dashboard is not rendered (the login page or the loading placeholder
\* is): it loses its state and the results of its calls in flight.
DashboardUnmounted ==
    /\ monthlyStats' = [income |-> 0, expenses |-> 0, net |-> 0]
    /\ budgetAlerts' = << >>
    /\ alertTasks' = << >>

\* The App renders with isAuthenticated = auth, isLoading = loading and
\* transactions = txs.  The Dashboard is rendered for a signed-in user once
\* isLoading is false: one rendered for the first time starts from its initial
\* state and runs its effect, one already rendered runs its effect if
\* setTransactions was called.
RenderDashboard(auth, loading, txs, txsSet) ==
    LET was == isAuthenticated /\ ~appIsLoading
    IN  IF auth /\ ~loading
        THEN IF txsSet \/ ~was
             THEN /\ DashboardEffect(txs, selectedMonth, timeView)
                  /\ budgetAlerts' = IF was THEN budgetAlerts ELSE << >>
             ELSE UNCHANGED << monthlyStats, budgetAlerts, alertTasks >>
        ELSE DashboardUnmounted

\* LoginPage's onLogin: setIsAuthenticated(true); initializeApp(), which sets
\* isLoading and awaits getCategories.
HandleLogin ==
    /\ ~isAuthenticated
    /\ history.started < MaxOps
    /\ Len(calls) < MaxCalls
    /\ isAuthenticated' = TRUE
    /\ appIsLoading' = TRUE
    /\ calls' = Append(calls, TxCall("init", "getCategories", NullRow, Null))
    /\ history' = [history EXCEPT !.started = @ + 1]
    /\ DashboardUnmounted
    /\ UNCHANGED << tz, storeTx, currentDate, selectedMonth, timeView, transactions,
                    appCategories, budgetVars >>

HandleLogout ==
    /\ isAuthenticated
    /\ history.started < MaxOps
    /\ isAuthenticated' = FALSE
    /\ transactions' = << >>
    /\ appCategories' = {}
    /\ history' = [history EXCEPT !.started = @ + 1]
    /\ DashboardUnmounted
    /\ UNCHANGED << tz, storeTx, currentDate, selectedMonth, timeView, appIsLoading,
                    calls, budgetVars >>

\* initializeApp: getCategories returns; on an error the catch logs it and
\* finally runs.
GetCategoriesResolved(k) ==
    /\ k \in 1..Len(calls)
    /\ calls[k].pc = "getCategories"
    /\ \E threw \in BOOLEAN :
          IF threw
          THEN /\ \E loading \in { InitializeAppFinally(appIsLoading, TRUE) } :
                     /\ appIsLoading' = loading
                     /\ RenderDashboard(isAuthenticated, loading, transactions, FALSE)
               /\ calls' = RemoveAt(calls, k)
               /\ history' = Ended(history, calls[k], TRUE)
               /\ UNCHANGED appCategories
          ELSE /\ appCategories' = Categories
               /\ calls' = [calls EXCEPT ![k].pc = "loadTransactions"]
               /\ UNCHANGED << appIsLoading, history, monthlyStats, budgetAlerts, alertTasks >>
    /\ UNCHANGED << tz, storeTx, currentDate, selectedMonth, timeView, transactions,
                    isAuthenticated, budgetVars >>

\* initializeApp: its loadTransactions ends, with setTransactions(data) or with
\* the error logged, and finally runs.
InitLoadTransactionsEnded(k) ==
    /\ k \in 1..Len(calls)
    /\ calls[k].pc = "loadTransactions"
    /\ \E failed \in BOOLEAN, data \in GetTransactions(storeTx) :
          \E txs \in { IF failed THEN transactions ELSE data },
             loading \in { InitializeAppFinally(appIsLoading, FALSE) } :
             /\ transactions' = txs
             /\ appIsLoading' = loading
             /\ history' = Ended(history, calls[k], failed)
             /\ RenderDashboard(isAuthenticated, loading, txs, ~failed)
    /\ calls' = RemoveAt(calls, k)
    /\ UNCHANGED << tz, storeTx, currentDate, selectedMonth, timeView, isAuthenticated,
                    appCategories, budgetVars >>

\* The App after its first render and its mount effect: with the sign-in flag
\* in localStorage the user is signed in and initializeApp awaits
\* getCategories, without it the login page is shown.
InitSession ==
    /\ tz \in TimezoneOffsets
    /\ storeTx \in { S \in SUBSET TxPool : Cardinality(S) <= MaxTx }
    /\ storeBudgets = {}
    /\ currentDate = D(2024, 6, 12)
    /\ selectedMonth = Slice0(currentDate, 7)
    /\ timeView = "month"
    /\ transactions = << >>
    /\ monthlyStats = [income |-> 0, expenses |-> 0, net |-> 0]
    /\ budgetAlerts = << >>
    /\ alertTasks = << >>
    /\ budgets = << >>
    /\ budgetRows = << >>
    /\ isLoading = FALSE
    /\ error = ""
    /\ history = NoHistory
    /\ isAuthenticated \in BOOLEAN
    /\ calls = IF isAuthenticated THEN << TxCall("init", "getCategories", NullRow, Null) >>
               ELSE << >>
    /\ appCategories = {}
    /\ appIsLoading = TRUE

NextSession ==
    \/ HandleLogin
    \/ HandleLogout
    \/ \E k \in 1..MaxCalls : GetCategoriesResolved(k)
    \/ \E k \in 1..MaxCalls : InitLoadTransactionsEnded(k)
    \/ \E k \in 1..(MaxOps + 1) : GetBudgetsResolved(k)
    \/ \E k \in 1..(MaxOps + 1) : AlertRequestRejected(k)

SpecSession == InitSession /\ [][NextSession]_vars

\* The store answers every request of initializeApp, with data or an error.
SpecSessionFair ==
    /\ SpecSession
    /\ \A k \in 1..MaxCalls : WF_vars(GetCategoriesResolved(k))
    /\ \A k \in 1..MaxCalls : WF_vars(InitLoadTransactionsEnded(k))

-----------------------------------------------------------------------------
(* Properties *)

\* The transactions calculateStats aggregates over, and the expenses
\* getExpensesByCategory groups.
aggregated == FilterStats(transactions, selectedMonth, timeView, tz)
grouped == FilterExpenses(transactions, selectedMonth, timeView, tz)

RECURSIVE SumOver(_, _)
SumOver(s, I) ==
    IF I = {} THEN 0
    ELSE LET i == CHOOSE x \in I : TRUE IN s[i].amount + SumOver(s, I \ {i})

DayOf(date) ==
    DayNum(NumVal(SubSeq(date, 1, 4)), NumVal(SubSeq(date, 6, 7)), NumVal(SubSeq(date, 9, 10)))

\* C1: in month view the Dashboard aggregates over exactly the transactions
\* whose date starts with the reference month's "YYYY-MM": none of another
\* month is kept, none of that month is dropped, in calculateStats and in
\* getExpensesByCategory alike.
C1_MonthFilterExact ==
    timeView = "month" =>
        LET ofMonth == SelectSeq(transactions, LAMBDA t : SubSeq(t.date, 1, 7) = selectedMonth)
        IN  /\ aggregated = ofMonth
            /\ grouped = SelectSeq(ofMonth, LAMBDA t : t.type = "expense")
            /\ monthlyStats.income + monthlyStats.expenses
                   = SumOver(ofMonth, 1..Len(ofMonth))

C1_Witness ==
    /\ timeView = "month"
    /\ selectedMonth = MonthKey(2024, 7)
    /\ Len(transactions) = 2
    /\ Len(aggregated) = 1
    /\ monthlyStats.expenses = 40

\* C2: in day view the Dashboard aggregates over exactly the transactions
\* dated on the day the user navigated to (currentDate).
C2_DayFilterExact ==
    timeView = "day" =>
        aggregated = SelectSeq(transactions, LAMBDA t : t.date = currentDate)

\* C3: in week view the Dashboard aggregates over exactly the transactions
\* dated in [start, start + 6], start being currentDate minus its weekday
\* index (Sunday = 0).
C3_WeekFilterExact ==
    timeView = "week" =>
        LET ref == DayOf(currentDate)
            start == ref - Weekday(ref)
        IN  aggregated = SelectSeq(transactions,
                LAMBDA t : DayOf(t.date) >= start /\ DayOf(t.date) <= start + 6)

\* C4: income is the sum of the amounts of the aggregated transactions of
\* type income, expenses that of type expense, and every aggregated
\* transaction counts in exactly one of the two totals.
C4_IncomeExpenseTotals ==
    LET F == aggregated
        ix == { i \in 1..Len(F) : F[i].type = "income" }
        ex == { i \in 1..Len(F) : F[i].type = "expense" }
    IN  /\ monthlyStats.income = SumOver(F, ix)
        /\ monthlyStats.expenses = SumOver(F, ex)
        /\ monthlyStats.income + monthlyStats.expenses = SumOver(F, 1..Len(F))

C4_Witness ==
    /\ currentDate = D(2024, 6, 1)
    /\ selectedMonth = MonthKey(2024, 6)
    /\ timeView = "month"
    /\ { transactions[i].id : i \in 1..Len(transactions) } = {"t1", "t2"}
    /\ monthlyStats = [income |-> 1000, expenses |-> 50, net |-> 950]

\* C5: net is income minus expenses in every state calculateStats writes.
C5_NetIsIncomeMinusExpenses ==
    monthlyStats.net = monthlyStats.income - monthlyStats.expenses

C5_Witness ==
    /\ currentDate = D(2024, 6, 1)
    /\ timeView = "month"
    /\ monthlyStats.income = 5
    /\ monthlyStats.expenses = 80
    /\ monthlyStats.net = -75

\* C6: the amounts of the category buckets sum to the sum of the amounts of
\* the expenses that were grouped, a missing category join included.
C6_GroupingPreservesSum ==
    LET G == grouped
    IN  totalExpense = SumOver(G, 1..Len(G))

C6_Witness ==
    /\ currentDate = D(2024, 6, 13)
    /\ Len(grouped) = 2
    /\ \E i \in 1..2 : grouped[i].categories = NullRow
    /\ Len(expenses) = 1
    /\ expenses[1].amount = 50

NameOf(t) == IF t.categories = NullRow THEN "Other" ELSE t.categories.name
ColorOf(t) ==
    IF t.categories = NullRow THEN "#6B7280"
    ELSE IF t.categories.color = Null THEN "#6B7280" ELSE t.categories.color
IconOf(t) == IF t.categories = NullRow THEN "Package" ELSE t.categories.icon

\* C7: there is exactly one bucket per category name among the grouped
\* expenses ("Other" for a missing join); its amount is the sum of its
\* transactions and its color and icon are those of the first of them.
C7_OneBucketPerName ==
    LET E == expenses
        G == grouped
    IN  /\ \A i, j \in 1..Len(E) : E[i].name = E[j].name => i = j
        /\ { E[i].name : i \in 1..Len(E) } = { NameOf(G[k]) : k \in 1..Len(G) }
        /\ \A i \in 1..Len(E) :
              LET members == { k \in 1..Len(G) : NameOf(G[k]) = E[i].name }
                  first == CHOOSE k \in members : \A m \in members : k <= m
              IN  /\ E[i].amount = SumOver(G, members)
                  /\ E[i].color = ColorOf(G[first])
                  /\ E[i].icon = IconOf(G[first])

C7_Witness ==
    /\ currentDate = D(2024, 6, 13)
    /\ Len(grouped) = 2
    /\ grouped[1].categories # NullRow
    /\ grouped[2].categories = NullRow
    /\ expenses = << [name |-> "Other", amount |-> 50, color |-> "#3B82F6", icon |-> "Tag"] >>

\* C8: every budget row is in exactly one class: normal below 80 percent,
\* warning from 80 up to and including 100, over-budget strictly above 100
\* with over-amount spent - limit_amount; the ratios 0.79999, 0.8, 1, 1.0001
\* and 85 or 120 of 100 fall as the claim lists them.
C8_Classification ==
    \A i \in 1..Len(budgetRows) :
        LET spent == budgets[i].spent
            limit == budgets[i].limit_amount
            row == budgetRows[i]
        IN  /\ spent * 100 < 80 * limit =>
                row.style = "slate" /\ row.bar = "green" /\ row.overBy = << >>
            /\ (spent * 100 >= 80 * limit /\ spent <= limit) =>
                row.style = "amber" /\ row.bar = "amber" /\ row.overBy = << >>
            /\ spent > limit =>
                row.style = "red" /\ row.bar = "red" /\ row.overBy = << spent - limit >>
            /\ << spent, limit >> = << 79999, 100000 >> => row.style = "slate"
            /\ << spent, limit >> = << 80000, 100000 >> => row.style = "amber"
            /\ << spent, limit >> = << 100000, 100000 >> => row.style = "amber"
            /\ << spent, limit >> = << 100010, 100000 >> =>
                row.style = "red" /\ row.overBy = << 10 >>
            /\ << spent, limit >> = << 85, 100 >> => row.style = "amber"
            /\ << spent, limit >> = << 120, 100 >> => row.style = "red" /\ row.overBy = << 20 >>

C8_Witness ==
    /\ Len(budgetRows) = 1
    /\ budgets[1].spent = 100
    /\ budgets[1].limit_amount = 100
    /\ budgetRows[1].style = "amber"

\* The alerts due for month M: one per budget of M whose spent, as
\* getCategorySpending returns it, is at least 80 percent of its limit.
AlertsDue(alerts, month) ==
    LET spentOf(b) == GetCategorySpending(storeTx, b.category_id, month, tz)
        due == { b \in storeBudgets :
                   b.month = month /\ spentOf(b) * 100 >= 80 * b.limit_amount }
        isFor(a, b) == /\ a.categoryName = (CHOOSE c \in Categories : c.id = b.category_id).name
                       /\ a.limit = b.limit_amount
                       /\ a.spent = spentOf(b)
    IN  /\ \A b \in due : \E i \in 1..Len(alerts) : isFor(alerts[i], b)
        /\ \A i \in 1..Len(alerts) : \E b \in due : isFor(alerts[i], b)
        /\ Len(alerts) = Cardinality(due)

\* A step in which the checkBudgetAlerts call k reaches setBudgetAlerts.
AlertsCompleted(k) ==
    \/ GetBudgetsResolved(k) /\ Len(alertTasks') < Len(alertTasks)
    \/ GetCategorySpendingResolved(k) /\ alertTasks[k].i = Len(alertTasks[k].fetched)

\* C9: when checkBudgetAlerts completes for month M, budgetAlerts holds an
\* alert for every budget of M with spent / limit_amount * 100 >= 80 and none
\* for a budget below 80 percent.
C9_AlertsAtEightyPercent ==
    [][\A k \in 1..Len(alertTasks) :
          AlertsCompleted(k) => AlertsDue(budgetAlerts', alertTasks[k].month)]_vars

C9_Witness ==
    /\ alertTasks = << >>
    /\ Cardinality({ b \in storeBudgets : b.month = selectedMonth }) = 2
    /\ Len(budgetAlerts) = 1
    /\ budgetAlerts[1].spent = 80
    /\ budgetAlerts[1].limit = 100

\* C10: getCategorySpending(c, M) is the sum of the amounts of exactly the
\* stored expenses of category c dated in [first day of M, first day of the
\* month after M).
C10_CategorySpendingExact ==
    \A c \in Categories :
        GetCategorySpending(storeTx, c.id, selectedMonth, tz)
            = SumAmount({ t \in storeTx : /\ t.type = "expense"
                                          /\ t.category_id = c.id
                                          /\ SubSeq(t.date, 1, 7) = selectedMonth })

-----------------------------------------------------------------------------
(* Properties of the budget store and of BudgetManager *)

\* The rows of table budgets for a (category_id, month) pair.
BudgetsFor(rows, categoryId, month) ==
    { b \in rows : b.category_id = categoryId /\ b.month = month }

\* A step in which the setBudget of handler invocation k returns a Budget.
SetBudgetReturned(k) ==
    /\ calls[k].pc \in {"update", "insert"}
    /\ Len(calls') = Len(calls)
    /\ calls'[k].pc = "getBudgets"

\* C11: when a setBudget(categoryId, limitAmount, month) returns, the store
\* holds exactly one budget for (categoryId, month) and its limit_amount is
\* limitAmount, also when an earlier call had created the budget with another
\* amount.
C11_SetBudgetIdempotent ==
    [][\A k \in 1..Len(calls) :
          SetBudgetReturned(k) =>
              LET rows == BudgetsFor(storeBudgets', calls[k].category_id, calls[k].month)
              IN  /\ Cardinality(rows) = 1
                  /\ \A b \in rows : b.limit_amount = calls[k].amount]_vars

\* A first setBudget inserted the budget with one amount and has ended; a
\* second one for the same pair with another amount has updated that row.
C11_Witness ==
    /\ history.last.handler = "add"
    /\ history.last.failedAt = 0
    /\ history.last.id = Null
    /\ \E k \in 1..Len(calls) :
          /\ calls[k].handler = "add"
          /\ calls[k].pc \in {"getBudgets", "spending"}
          /\ calls[k].id = NewBudgetIds[1]
          /\ calls[k].category_id = history.last.category_id
          /\ calls[k].amount # history.last.amount
          /\ \E b \in storeBudgets : b.id = calls[k].id /\ b.limit_amount = calls[k].amount

\* C12: the store never holds two budgets with the same (category_id, month).
C12_OneBudgetPerPair ==
    \A a, b \in storeBudgets :
        (a.category_id = b.category_id /\ a.month = b.month) => a = b

\* Two setBudget calls for one pair both found no budget; one has inserted
\* its row and the other is still about to insert.
C12_Witness ==
    \E k \in 1..Len(calls) :
        /\ calls[k].pc = "insert"
        /\ calls[k].amount > 0
        /\ BudgetsFor(storeBudgets, calls[k].category_id, calls[k].month) # {}

\* C13: a setBudget with limitAmount <= 0 never gets past its write and ends
\* in an error, and no stored budget has a limit_amount <= 0.
C13_NonPositiveLimitRejected ==
    /\ \A b \in storeBudgets : b.limit_amount > 0
    /\ \A k \in 1..Len(calls) :
          (calls[k].handler = "add" /\ calls[k].amount <= 0)
              => calls[k].pc \in {"lookup", "update", "insert"}
    /\ (history.last.handler = "add" /\ history.last.amount <= 0)
          => history.last.failedAt # 0

\* handleAddBudget with amount 0 for a budget that exists ended in an error
\* at the update and the budget kept its limit.
C13_Witness ==
    /\ history.last.handler = "add"
    /\ history.last.amount = 0
    /\ history.last.pc = "update"
    /\ history.last.failedAt = 2
    /\ \E b \in storeBudgets : b.id = history.last.id /\ b.limit_amount = 100

IsFirstOfMonth(month) ==
    /\ Len(month) = 10
    /\ SubSeq(month, 8, 10) = << "-", "0", "1" >>

\* C14: the month of every getBudgets, setBudget and getCategorySpending call
\* of BudgetManager, and of every stored budget, is a date YYYY-MM-01.
C14_MonthsAreFirstOfMonth ==
    /\ \A k \in 1..Len(calls) : IsFirstOfMonth(calls[k].month)
    /\ \A b \in storeBudgets : IsFirstOfMonth(b.month)

\* The budgets of the store for the selected month.
StoredForMonth == { b \in storeBudgets : b.month = selectedMonth }

\* C15: a step in which loadBudgets or checkBudgetAlerts fails leaves the
\* displayed budgets and budgetAlerts as they were, and whenever one of the
\* two lists is replaced the new list covers every budget of the month.
C15_NoPartialList ==
    [][/\ \A k \in 1..Len(calls) : LoadRejected(k) => budgets' = budgets
       /\ \A k \in 1..Len(alertTasks) : AlertRequestRejected(k) => budgetAlerts' = budgetAlerts
       /\ budgets' # budgets => Len(budgets') = Cardinality(StoredForMonth)
       /\ budgetAlerts' # budgetAlerts => AlertsDue(budgetAlerts', selectedMonth)]_vars

\* loadBudgets failed after one of two spend fetches had returned, and the
\* list displayed is still the one from before the call.
C15_Witness ==
    /\ history.last.pc = "spending"
    /\ history.last.failedAt # 0
    /\ \E i, j \in 1..Len(history.last.spent) :
          history.last.spent[i] # -1 /\ history.last.spent[j] = -1
    /\ budgets = << >>

Shown(b) == [id |-> b.id, category_id |-> b.category_id, limit_amount |-> b.limit_amount]

\* C18: when no handler invocation is in flight and none has failed, the
\* budgets displayed are the budgets the store holds for selectedMonth.
C18_DisplayedEqualsStored ==
    (calls = << >> /\ ~history.failed)
        => /\ { Shown(budgets[i]) : i \in 1..Len(budgets) } = { Shown(b) : b \in StoredForMonth }
           /\ Len(budgets) = Cardinality(StoredForMonth)

-----------------------------------------------------------------------------
(* Properties of the transaction store *)

\* C17: every stored transaction has amount > 0.
C17_AmountsPositive == \A t \in storeTx : t.amount > 0

\* A form submission with amount 0 ended in an error at the insert, and a
\* stored transaction still has the amount it was inserted with.
C17_Witness ==
    /\ history.last.handler = "submit"
    /\ history.last.pc = "insert"
    /\ history.last.failedAt # 0
    /\ history.last.row.amount = 0
    /\ \E t \in storeTx : t.id = NewTxIds[1] /\ t.amount = 30

TxIds(rows) == { t.id : t \in rows }

\* C19: a step adds at most one transaction, and only as the insert of one
\* addTransaction; it removes at most one, and only as the delete of one
\* handleDeleteTransaction; recurring or not, an add inserts one row.
C19_NoMaterialization ==
    [][LET added == TxIds(storeTx') \ TxIds(storeTx)
           removed == TxIds(storeTx) \ TxIds(storeTx')
       IN  /\ Cardinality(added) + Cardinality(removed) <= 1
           /\ Cardinality(storeTx') = Cardinality(TxIds(storeTx'))
           /\ added # {} <=> history'.inserted = history.inserted + 1
           /\ history'.inserted \in {history.inserted, history.inserted + 1}
           /\ removed # {} =>
                 \E k \in 1..Len(calls) : calls[k].pc = "delete" /\ removed = {calls[k].id}]_vars

\* A recurring transaction was added through the form and the list was
\* reloaded: the store holds the one row of it and nothing else.
C19_Witness ==
    /\ history.inserted = 1
    /\ history.last.handler = "submit"
    /\ history.last.failedAt = 0
    /\ \E t \in storeTx : /\ t.id = NewTxIds[1]
                          /\ t.is_recurring
                          /\ t.recurring_frequency = "monthly"
    /\ Cardinality(storeTx) = 1
    /\ Len(transactions) = 1

\* C20: a stored transaction has a recurring_frequency or a recurring_end_date
\* only if it is_recurring.
C20_RecurrenceFieldsOnlyIfRecurring ==
    \A t \in storeTx :
        (t.recurring_frequency # Null \/ t.recurring_end_date # Null) => t.is_recurring

\* A step in which the deleteBudget of handler invocation k returns.
DeleteBudgetReturned(k) ==
    /\ calls[k].pc = "delete"
    /\ Len(calls') = Len(calls)
    /\ calls'[k].pc = "getBudgets"

\* C21: a setBudget that returns leaves every transaction as it is; when a
\* budget exists for (categoryId, month) it changes limit_amount and
\* updated_at of that one row, keeping its id, category_id, month and
\* created_at and every other budget; when none exists the store gains exactly
\* one budget and loses or changes none.
C21_SetBudgetFrame ==
    [][\A k \in 1..Len(calls) :
          SetBudgetReturned(k) =>
              /\ storeTx' = storeTx
              /\ IF BudgetsFor(storeBudgets, calls[k].category_id, calls[k].month) # {}
                 THEN \E old \in storeBudgets, new \in storeBudgets' :
                         /\ old.category_id = calls[k].category_id
                         /\ old.month = calls[k].month
                         /\ new = [old EXCEPT !.limit_amount = new.limit_amount,
                                              !.updated_at = new.updated_at]
                         /\ storeBudgets' \ {new} = storeBudgets \ {old}
                 ELSE /\ storeBudgets \subseteq storeBudgets'
                      /\ Cardinality(storeBudgets' \ storeBudgets) = 1]_vars

\* A setBudget has updated budget b1, created at time 0, to another limit
\* while the store holds budget b2 and transactions.
C21_Witness ==
    /\ storeTx # {}
    /\ Budget("b2", "c4", 50, MonthKey(2024, 6)) \in storeBudgets
    /\ \E k \in 1..Len(calls), b \in storeBudgets :
          /\ calls[k].handler = "add"
          /\ calls[k].pc \in {"getBudgets", "spending"}
          /\ calls[k].id = "b1"
          /\ b.id = "b1"
          /\ b.limit_amount = calls[k].amount
          /\ b.limit_amount # 100
          /\ b.created_at = 0
          /\ b.updated_at > 0

\* C22: a deleteBudget(id) that returns removes from the store the budget with
\* that id, if there is one, and nothing else: every other budget and every
\* transaction stays as it is.
C22_DeleteBudgetFrame ==
    [][\A k \in 1..Len(calls) :
          DeleteBudgetReturned(k) =>
              /\ storeTx' = storeTx
              /\ storeBudgets' = storeBudgets \ { b \in storeBudgets : b.id = calls[k].id }
              /\ Cardinality(storeBudgets \ storeBudgets') <= 1]_vars

\* Budget b1 has been deleted by a handleDeleteBudget whose reload is under
\* way; budget b2 and the transactions are still stored.
C22_Witness ==
    /\ storeTx # {}
    /\ storeBudgets = { Budget("b2", "c4", 50, MonthKey(2024, 6)) }
    /\ \E k \in 1..Len(calls) :
          /\ calls[k].handler = "delete"
          /\ calls[k].pc \in {"getBudgets", "spending"}
          /\ calls[k].id = "b1"

\* A deleteBudget is about to run for a budget an earlier delete has removed.
C22_DeleteOfMissingId ==
    \E k \in 1..Len(calls) :
       /\ calls[k].pc = "delete"
       /\ \A b \in storeBudgets : b.id # calls[k].id

\* A budget has been inserted for category c1 while budget b2 is stored.
C21_InsertWitness ==
    /\ Budget("b2", "c4", 50, MonthKey(2024, 6)) \in storeBudgets
    /\ \E b \in storeBudgets : b.id = NewBudgetIds[1] /\ b.category_id = "c1"

\* The type of the category with an id.
TypeOf(id) == (CHOOSE c \in categories : c.id = id).type

\* C23: every setBudget that handleAddBudget issues, and every budget the
\* store has inserted for one, is for a category of type expense, whether or
\* not the budget list is loading.
C23_BudgetsOfExpenseCategories ==
    /\ \A k \in 1..Len(calls) : calls[k].handler = "add" => TypeOf(calls[k].category_id) = "expense"
    /\ \A b \in storeBudgets :
          (\E n \in 1..Len(NewBudgetIds) : b.id = NewBudgetIds[n])
              => TypeOf(b.category_id) = "expense"

\* A budget was added while the list was still loading and the store has
\* inserted it.
C23_Witness ==
    /\ isLoading
    /\ \E k \in 1..Len(calls) : calls[k].handler = "mount"
    /\ \E b \in storeBudgets : b.id = NewBudgetIds[1] /\ TypeOf(b.category_id) = "expense"

-----------------------------------------------------------------------------
(* Properties of the App and the Dashboard under overlapping requests *)

\* C24: once every checkBudgetAlerts call has completed, budgetAlerts holds
\* the alerts due for selectedMonth, the month of the latest call.
C24_AlertsOfLatestMonth ==
    alertTasks = << >> => AlertsDue(budgetAlerts, selectedMonth)

\* C28: a run of the Dashboard's effect in day or week view, after a switch of
\* the time view or a change of the date, starts no checkBudgetAlerts and leaves
\* budgetAlerts as it is.
C28_AlertsOnlyInMonthView ==
    [][(timeView' # "month" /\ (timeView' # timeView \/ currentDate' # currentDate))
          => (budgetAlerts' = budgetAlerts /\ alertTasks' = alertTasks)]_vars

\* The alert computed for June in month view is still the one shown after the
\* user switched to day view and went back to 31 May.
C28_Witness ==
    /\ timeView = "day"
    /\ selectedMonth = MonthKey(2024, 5)
    /\ alertTasks = << >>
    /\ Len(budgetAlerts) = 1
    /\ budgetAlerts[1].spent = 80

\* The calendar month after and before a month key.
FollowingMonth(month) ==
    LET y == NumVal(SubSeq(month, 1, 4))
        m == NumVal(SubSeq(month, 6, 7))
    IN  IF m = 12 THEN MonthKey(y + 1, 1) ELSE MonthKey(y, m + 1)

PrecedingMonth(month) ==
    LET y == NumVal(SubSeq(month, 1, 4))
        m == NumVal(SubSeq(month, 6, 7))
    IN  IF m = 1 THEN MonthKey(y - 1, 12) ELSE MonthKey(y, m - 1)

\* C26: in month view handleDateChange('next') moves selectedMonth to the
\* following calendar month and handleDateChange('prev') to the preceding one.
C26_MonthStepsByOne ==
    [][timeView = "month" =>
          /\ HandleDateChange("next") => selectedMonth' = FollowingMonth(selectedMonth)
          /\ HandleDateChange("prev") => selectedMonth' = PrecedingMonth(selectedMonth)]_vars

\* C29: selectedMonth is the first seven characters of currentDate.
C29_SelectedMonthOfCurrentDate ==
    /\ Len(currentDate) = 10
    /\ selectedMonth = SubSeq(currentDate, 1, 7)

\* In month view on a host on UTC, 'next' from 31 May has led to July.
C26_SkipsJuneOnUTC ==
    /\ tz = 0
    /\ timeView = "month"
    /\ currentDate = NextDate(D(2024, 5, 31), "month", "next", 0)
    /\ selectedMonth = MonthKey(2024, 7)

\* C27: when a handleAddTransaction or handleDeleteTransaction resolves, after
\* the loadTransactions that follows its mutation, the transactions listed are
\* the transactions stored, and a deleted one is not among them.
C27_ListReloadedOnResolve ==
    [][\A k \in 1..Len(calls) :
          (calls[k].pc = "getTransactions" /\ calls' = RemoveAt(calls, k)) =>
              /\ { transactions'[i].id : i \in 1..Len(transactions') } = TxIds(storeTx)
              /\ calls[k].handler = "delete" =>
                    \A i \in 1..Len(transactions') : transactions'[i].id # calls[k].id]_vars

\* C25: while isAuthenticated is false, App's transactions and categories are
\* empty.
C25_EmptyWhileSignedOut ==
    ~isAuthenticated => (transactions = << >> /\ appCategories = {})

\* C30: whenever invocations of initializeApp are in flight, eventually none
\* is and isLoading is false.
C30_LoadingEnds ==
    (calls # << >>) ~> (calls = << >> /\ ~appIsLoading)

\* The category fetch of the last initializeApp failed; isLoading is false
\* and the user is signed in.
C30_Witness ==
    /\ isAuthenticated
    /\ calls = << >>
    /\ ~appIsLoading
    /\ history.last.handler = "init"
    /\ history.last.pc = "getCategories"
    /\ history.last.failedAt # 0

====
